---- MODULE Spec2Model ----
(***************************************************************************)
(* RunnerVision: the LangGraph workflow of lang.py.  One request is pushed *)
(* through router -> route_generation -> safety_analysis ->                *)
(* contextual_intelligence -> street_closures -> synthesis -> END.  The    *)
(* collaborators that are not part of the repository (route provider,      *)
(* incident database, weather service, closure service, the LLM) are the   *)
(* environment: each call returns or raises one of a bounded set of        *)
(* outcomes.                                                               *)
(***************************************************************************)
EXTENDS Integers, Sequences, FiniteSets, TLC

(***************************************************************************)
(* Bounds of the model.                                                    *)
(***************************************************************************)
\* most routes the route provider returns in one call
MaxRoutes == 4
\* most points a route polyline decodes to
MaxPolylinePoints == 4

(***************************************************************************)
(* Text.  A Python str is a sequence of one-character strings, so that     *)
(* lower(), strip() and the substring test `word in query` are computed.   *)
(***************************************************************************)
UpperCase == <<"A", "B", "C", "D", "E", "F", "G", "H", "I", "J", "K", "L", "M", "N", "O", "P", "Q", "R", "S", "T", "U", "V", "W", "X", "Y", "Z">>

LowerCase == <<"a", "b", "c", "d", "e", "f", "g", "h", "i", "j", "k", "l", "m", "n", "o", "p", "q", "r", "s", "t", "u", "v", "w", "x", "y", "z">>

Whitespace == {" ", "\t", "\n"}

\* str.lower() on one character
LowerChar(c) ==
  IF \E i \in 1..Len(UpperCase) : UpperCase[i] = c
  THEN LowerCase[CHOOSE i \in 1..Len(UpperCase) : UpperCase[i] = c]
  ELSE c

\* str.lower()
Lower(s) == [i \in 1..Len(s) |-> LowerChar(s[i])]

\* str.strip(): drop leading and trailing whitespace
Strip(s) ==
  LET keep == {i \in 1..Len(s) : s[i] \notin Whitespace}
  IN  IF keep = {} THEN <<>>
      ELSE LET lo == CHOOSE i \in keep : \A j \in keep : i <= j
               hi == CHOOSE i \in keep : \A j \in keep : j <= i
           IN  SubSeq(s, lo, hi)

\* Python's `word in text` on strings: word occurs as a contiguous substring
Contains(text, word) ==
  \E i \in 1..(Len(text) - Len(word) + 1) :
     \A j \in 1..Len(word) : text[i + j - 1] = word[j]

\* any(word in text for word in lexicon)
AnyWordIn(text, lexicon) ==
  \E w \in 1..Len(lexicon) : Contains(text, lexicon[w])

SafetyLexicon ==
  << <<"s", "a", "f", "e">>,
     <<"d", "a", "n", "g", "e", "r">>,
     <<"c", "r", "a", "s", "h">>,
     <<"a", "c", "c", "i", "d", "e", "n", "t">>,
     <<"t", "r", "a", "f", "f", "i", "c">>,
     <<"r", "i", "s", "k">>,
     <<"h", "a", "z", "a", "r", "d">>,
     <<"p", "e", "d", "e", "s", "t", "r", "i", "a", "n">>,
     <<"v", "e", "h", "i", "c", "l", "e">>,
     <<"c", "o", "l", "l", "i", "s", "i", "o", "n">> >>

ClosuresLexicon ==
  << <<"c", "l", "o", "s", "u", "r", "e">>,
     <<"c", "o", "n", "s", "t", "r", "u", "c", "t", "i", "o", "n">>,
     <<"c", "l", "o", "s", "e", "d">>,
     <<"d", "e", "t", "o", "u", "r">>,
     <<"b", "l", "o", "c", "k", "e", "d">>,
     <<"p", "e", "r", "m", "i", "t">>,
     <<"w", "o", "r", "k">>,
     <<"m", "a", "i", "n", "t", "e", "n", "a", "n", "c", "e">>,
     <<"r", "o", "a", "d", "w", "o", "r", "k">> >>

(***************************************************************************)
(* The requests the caller may send.                                       *)
(***************************************************************************)
QuerySafeConstruction ==
  <<"I", " ", "n", "e", "e", "d", " ", "a", " ", "s", "a", "f", "e", " ", "5", "k", " ", "r", "o", "u", "t", "e", ",", " ", "a", "v", "o", "i", "d", " ", "c", "o", "n", "s", "t", "r", "u", "c", "t", "i", "o", "n">>

QueryPlain ==
  <<"G", "i", "v", "e", " ", "m", "e", " ", "a", " ", "5", "k", " ", "r", "o", "u", "t", "e">>

QueryUpperRisk ==
  <<"R", "I", "S", "K", "Y", " ", "r", "u", "n">>

QueryRoadwork ==
  <<"A", "n", "y", " ", "R", "o", "a", "d", "w", "o", "r", "k", "?">>

QueryTwoChars ==
  <<"a", "b">>

QueryPadded ==
  <<" ", " ", "a", " ", "\n">>

\* the requests that must be accepted: every accepted query, each at a corner
\* of the accepted range of <<query, lat, lng, km>>
AcceptedRequests ==
  { <<QuerySafeConstruction, -90, -180, 50>>,
    <<QueryPlain, 90, 180, 1>>,
    <<QueryUpperRisk, -90, 180, 50>>,
    <<QueryRoadwork, 90, -180, 1>> }

ShortQueries == { QueryTwoChars, QueryPadded, <<>> }

\* an accepted request with one field, or every field, moved out of range
Requests ==
  AcceptedRequests
  \cup { <<q, r[2], r[3], r[4]>> : q \in ShortQueries, r \in AcceptedRequests }
  \cup { <<r[1], lat, r[3], r[4]>> : lat \in {-91, 91}, r \in AcceptedRequests }
  \cup { <<r[1], r[2], lng, r[4]>> : lng \in {-181, 181}, r \in AcceptedRequests }
  \cup { <<r[1], r[2], r[3], km>> : km \in {-1, 0, 51}, r \in AcceptedRequests }
  \cup { <<QueryTwoChars, 91, 181, 0>> }

\* accuracy values (percent) the route provider may report
AccuracyLevels == {80, 95}

(***************************************************************************)
(* Python values.  A dict is a function from keys to values, {} is the     *)
(* function with the empty domain, and a dict or list is truthy iff it is  *)
(* not empty.                                                              *)
(***************************************************************************)
EmptyDict == [k \in {} |-> 0]

Truthy(d) == DOMAIN d # {}

\* validation limits of run_runner_vision
MinQueryLen == 3
MinLat == -90
MaxLat == 90
MinLng == -180
MaxLng == 180
MaxDistanceKm == 50

VARIABLES
  pc,                    \* where the request is: "call", "rejected", a graph node, "END"
  query, start_lat, start_lng, target_distance_km,
  needs_safety, needs_weather, needs_closures,
  routes, safety_analysis, weather_data, closures_data,
  recommendation, error_messages,
  weather_too_dangerous, \* the key contextual_intelligence_agent adds to its dict:
                         \* whether the dict the last node returned holds it
  executed,              \* the graph nodes run so far, in order
  evaluated,             \* the calls of psa.analyze_route_safety_detailed, in order:
                         \* the route's direction and whether the call raised
  closure_queries,       \* the get_street_closures calls made: route direction and point index
  decoded,               \* the calls of polyline.decode, in order: how each one ended
  context,               \* the context dict synthesis_agent built for the LLM
  calls,                 \* how often each other collaborator was invoked
  failures,              \* how many collaborator calls failed (raised, or returned
                         \* an error payload or no route) inside the node that ran last
  args, returned         \* a function of the repository called on its own:
                         \* its arguments and what it returned

vars ==
  << pc, query, start_lat, start_lng, target_distance_km,
     needs_safety, needs_weather, needs_closures,
     routes, safety_analysis, weather_data, closures_data,
     recommendation, error_messages, weather_too_dangerous,
     executed, evaluated, closure_queries, decoded, context, calls,
     failures, args, returned >>

inputs == << query, start_lat, start_lng, target_distance_km >>

utility == << args, returned >>

flags == << needs_safety, needs_weather, needs_closures >>

NoCalls == [route_provider |-> 0, weather |-> 0, polyline_decode |-> 0, llm |-> 0]

\* AppendError that records the message twice
AppendError_Twice(messages, message) == messages \o <<message, message>>

\* AppendError that assigns the one-message list: earlier messages are lost
AppendError_Overwrite(messages, message) == <<message>>

\* state.get("error_messages", []) + [message]
AppendError(messages, message) == messages \o <<message>>

\* the two ways a call of a collaborator ends
Raises == [raises |-> TRUE]

Returns(v) == [raises |-> FALSE, value |-> v]

(***************************************************************************)
(* RunnerVisionState as the graph hands it from node to node.              *)
(***************************************************************************)
RunnerVisionState ==
  [ query |-> query, start_lat |-> start_lat, start_lng |-> start_lng,
    target_distance_km |-> target_distance_km,
    needs_safety |-> needs_safety, needs_weather |-> needs_weather,
    needs_closures |-> needs_closures,
    routes |-> routes, safety_analysis |-> safety_analysis,
    weather_data |-> weather_data, closures_data |-> closures_data,
    recommendation |-> recommendation, error_messages |-> error_messages ]

\* no request has been worked on
Untouched ==
  /\ needs_safety = FALSE
  /\ needs_weather = FALSE
  /\ needs_closures = FALSE
  /\ routes = <<>>
  /\ safety_analysis = <<>>
  /\ weather_data = EmptyDict
  /\ closures_data = EmptyDict
  /\ recommendation = ""
  /\ error_messages = <<>>
  /\ weather_too_dangerous = FALSE
  /\ executed = <<>>
  /\ evaluated = <<>>
  /\ closure_queries = <<>>
  /\ decoded = <<>>
  /\ context = EmptyDict
  /\ calls = NoCalls
  /\ failures = 0

Init ==
  /\ pc = "call"
  /\ \E r \in Requests :
       /\ query = r[1]
       /\ start_lat = r[2]
       /\ start_lng = r[3]
       /\ target_distance_km = r[4]
  /\ Untouched
  /\ args = <<>>
  /\ returned = <<>>

(***************************************************************************)
(* run_runner_vision: input validation, then graph.invoke(initial_state).  *)
(***************************************************************************)
\* ValidationError with the distance check written `< 0`: a request for 0 km
\* is let through
ValidationError_ZeroDistance(q, lat, lng, km) ==
  IF q = <<>> \/ Len(Strip(q)) < MinQueryLen
    THEN "Query must be at least 3 characters"
  ELSE IF ~(MinLat <= lat /\ lat <= MaxLat) \/ ~(MinLng <= lng /\ lng <= MaxLng)
    THEN "Invalid coordinates"
  ELSE IF km < 0 \/ km > MaxDistanceKm
    THEN "Distance must be between 0 and 50 km"
  ELSE ""

\* the error text of the first failing check, "" when all pass
ValidationError(q, lat, lng, km) ==
  IF q = <<>> \/ Len(Strip(q)) < MinQueryLen
    THEN "Query must be at least 3 characters"
  ELSE IF ~(MinLat <= lat /\ lat <= MaxLat) \/ ~(MinLng <= lng /\ lng <= MaxLng)
    THEN "Invalid coordinates"
  ELSE IF km <= 0 \/ km > MaxDistanceKm
    THEN "Distance must be between 0 and 50 km"
  ELSE ""

\* NextNode with the edge out of safety_analysis drawn to street_closures:
\* the weather node is left out of the chain
NextNode_SkipsWeather(node) ==
  CASE node = "router"                  -> "route_generation"
    [] node = "route_generation"        -> "safety_analysis"
    [] node = "safety_analysis"         -> "street_closures"
    [] node = "contextual_intelligence" -> "street_closures"
    [] node = "street_closures"         -> "synthesis"
    [] node = "synthesis"               -> "END"

\* the edges of create_runner_vision_graph
NextNode(node) ==
  CASE node = "router"                  -> "route_generation"
    [] node = "route_generation"        -> "safety_analysis"
    [] node = "safety_analysis"         -> "contextual_intelligence"
    [] node = "contextual_intelligence" -> "street_closures"
    [] node = "street_closures"         -> "synthesis"
    [] node = "synthesis"               -> "END"

EntryPoint == "router"

\* a node has run: record it and follow its edge
Advance(node) ==
  /\ executed' = Append(executed, node)
  /\ pc' = NextNode(node)

run_runner_vision ==
  /\ pc = "call"
  /\ LET err == ValidationError(query, start_lat, start_lng, target_distance_km)
     IN  IF err # ""
         THEN /\ pc' = "rejected"
              /\ UNCHANGED << flags, routes, safety_analysis, weather_data,
                              closures_data, recommendation, error_messages >>
         ELSE \* initial_state, handed to the entry point of the graph
              /\ needs_safety' = FALSE
              /\ needs_weather' = FALSE
              /\ needs_closures' = FALSE
              /\ routes' = <<>>
              /\ safety_analysis' = <<>>
              /\ weather_data' = EmptyDict
              /\ closures_data' = EmptyDict
              /\ recommendation' = ""
              /\ error_messages' = <<>>
              /\ pc' = EntryPoint
  /\ UNCHANGED << inputs, utility, weather_too_dangerous, context, executed,
                  evaluated, closure_queries, decoded, calls, failures >>

\* what run_runner_vision returns: the error dict of a rejected request, the
\* final state of the graph once it has reached END, nothing before
Result ==
  IF pc = "rejected"
    THEN [error |-> ValidationError(query, start_lat, start_lng, target_distance_km)]
  ELSE IF pc = "END" THEN RunnerVisionState
  ELSE EmptyDict

(***************************************************************************)
(* router_agent (Classify)                                                 *)
(***************************************************************************)
\* ClassifiedText without the lower(): the lexicons are matched against the
\* query as typed
ClassifiedText_AsTyped(q) == q

\* query = state["query"].lower()
ClassifiedText(q) == Lower(q)

router_agent ==
  /\ pc = "router"
  /\ LET q == ClassifiedText(query)
     IN  /\ needs_safety' = AnyWordIn(q, SafetyLexicon)
         /\ needs_weather' = TRUE
         /\ needs_closures' = AnyWordIn(q, ClosuresLexicon)
  /\ failures' = 0
  /\ Advance("router")
  /\ UNCHANGED << inputs, utility, routes, safety_analysis, weather_data,
                  closures_data, recommendation, error_messages,
                  weather_too_dangerous, context, evaluated,
                  closure_queries, decoded, calls >>

(***************************************************************************)
(* route_generation_agent (GenerateRoutes)                                 *)
(***************************************************************************)
\* a route as get_routes.optimized_route_finder returns it; the direction
\* label identifies the route
Route(d, a) == [direction |-> d, accuracy |-> a]

\* the non-empty route lists the provider may return
RouteLists ==
  UNION { { [i \in 1..n |-> Route(i, acc[i])] : acc \in [1..n -> AccuracyLevels] } :
          n \in 1..MaxRoutes }

\* what one call of the route provider does: it raises, or returns a list
\* that may be empty
RouteProviderOutcomes == {Raises} \cup {Returns(rs) : rs \in {<<>>} \cup RouteLists}

route_generation_agent ==
  /\ pc = "route_generation"
  /\ \E outcome \in RouteProviderOutcomes :
       IF outcome.raises
       THEN /\ routes' = <<>>
            /\ error_messages' = AppendError(error_messages, "Route generation error: e")
       ELSE IF outcome.value = <<>>
       THEN /\ routes' = <<>>
            /\ error_messages' = AppendError(error_messages, "Route generation failed")
       ELSE /\ routes' = outcome.value
            /\ error_messages' = error_messages
  /\ calls' = [calls EXCEPT !.route_provider = @ + 1]
  /\ failures' = IF routes' = <<>> THEN 1 ELSE 0
  /\ Advance("route_generation")
  /\ UNCHANGED << inputs, utility, flags, safety_analysis, weather_data, closures_data,
                  recommendation, weather_too_dangerous, context,
                  evaluated, closure_queries, decoded >>

(***************************************************************************)
(* safety_analysis_agent (AnalyzeSafety)                                   *)
(***************************************************************************)
\* how many of the most accurate routes are analysed
TopRoutes == 3

\* SortedPosition of an ascending sort that is then reversed: routes of equal
\* accuracy come out in reverse order
SortedPosition_TiesReversed(rs, i) ==
  1 + Cardinality({j \in 1..Len(rs) : rs[j].accuracy > rs[i].accuracy})
    + Cardinality({j \in (i + 1)..Len(rs) : rs[j].accuracy = rs[i].accuracy})

\* where rs[i] stands in sorted(rs, key=lambda x: x["accuracy"], reverse=True):
\* behind every route of higher accuracy and, the sort being stable, behind
\* the routes of equal accuracy that precede it in rs
SortedPosition(rs, i) ==
  1 + Cardinality({j \in 1..Len(rs) : rs[j].accuracy > rs[i].accuracy})
    + Cardinality({j \in 1..(i - 1) : rs[j].accuracy = rs[i].accuracy})

\* sorted(rs, key=lambda x: x["accuracy"], reverse=True)
SortedByAccuracy(rs) ==
  [k \in 1..Len(rs) |-> rs[CHOOSE i \in 1..Len(rs) : SortedPosition(rs, i) = k]]

\* xs[:n]
Take(xs, n) == SubSeq(xs, 1, IF Len(xs) < n THEN Len(xs) ELSE n)

\* sorted(...)[:3]
Top3Routes(rs) == Take(SortedByAccuracy(rs), TopRoutes)

\* the "safety_analysis" entry psa.analyze_route_safety_detailed adds to a route
SafetyRollups ==
  { [overall_safety_score |-> 70, dangerous_segments |-> 2, sample_points |-> 3] }

\* what psa.analyze_route_safety_detailed does for one route: it raises, or
\* returns the route with its safety rollup
AnalysisOutcomes == {Raises} \cup {Returns(r) : r \in SafetyRollups}

\* {**route, "safety_analysis": rollup}
EnhancedRoute(route, rollup) ==
  [direction |-> route.direction, accuracy |-> route.accuracy,
   safety_analysis |-> rollup]

\* the positions 1..n as a list
Positions(n) == [i \in 1..n |-> i]

\* EnhancedRoutes without the inner try: the first analysis that raises ends
\* the loop and the outer handler leaves nothing
EnhancedRoutes_AbortOnFailure(top, outcome) ==
  IF \E i \in 1..Len(top) : outcome[i].raises THEN <<>>
  ELSE [k \in 1..Len(top) |-> EnhancedRoute(top[k], outcome[k].value)]

\* the for loop over top_3_routes: a route whose analysis raises is skipped,
\* the others are appended in the order of the loop
EnhancedRoutes(top, outcome) ==
  LET survivors == SelectSeq(Positions(Len(top)), LAMBDA i : ~outcome[i].raises)
  IN  [k \in 1..Len(survivors) |->
         EnhancedRoute(top[survivors[k]], outcome[survivors[k]].value)]

\* SafetySkipped without the early return for an empty route list
SafetySkipped_IgnoresRoutes(needs, rs) == ~needs

\* SafetySkipped without the needs_safety guard: only an empty route list
\* skips the analysis
SafetySkipped_OnlyWithoutRoutes(needs, rs) == rs = <<>>

\* the two early returns: needs_safety is false, or there are no routes
SafetySkipped(needs, rs) == ~needs \/ rs = <<>>

\* SafetyErrors that records nothing when no route survived
SafetyErrors_Silent(enhanced_routes, messages) == messages

\* "Safety analysis failed" is recorded when no route survived
SafetyErrors(enhanced_routes, messages) ==
  IF enhanced_routes = <<>>
  THEN AppendError(messages, "Safety analysis failed")
  ELSE messages

\* one record per call of psa.analyze_route_safety_detailed
Evaluations(top, outcome) ==
  [i \in 1..Len(top) |-> [direction |-> top[i].direction, raised |-> outcome[i].raises]]

safety_analysis_agent ==
  /\ pc = "safety_analysis"
  /\ IF SafetySkipped(needs_safety, routes)
     THEN /\ safety_analysis' = <<>>
          /\ failures' = 0
          /\ UNCHANGED << error_messages, evaluated >>
     ELSE LET top_3_routes == Top3Routes(routes)
          IN  \E outcome \in [1..Len(top_3_routes) -> AnalysisOutcomes] :
                LET enhanced_routes == EnhancedRoutes(top_3_routes, outcome)
                IN  /\ evaluated' = evaluated \o Evaluations(top_3_routes, outcome)
                    /\ failures' = Len(top_3_routes) - Len(enhanced_routes)
                    /\ error_messages' = SafetyErrors(enhanced_routes, error_messages)
                    /\ safety_analysis' = enhanced_routes
  /\ Advance("safety_analysis")
  /\ UNCHANGED << inputs, utility, flags, routes, weather_data, closures_data,
                  recommendation, weather_too_dangerous, context,
                  closure_queries, decoded, calls >>

(***************************************************************************)
(* contextual_intelligence_agent (CheckWeather)                            *)
(***************************************************************************)
RiskLevels == {"low", "moderate", "high"}

\* the payload of get_weather.get_weather_conditions
Conditions == [description |-> "overcast"]

\* what the weather collaborators do: get_weather_conditions or
\* assess_weather_risk raises, get_weather_conditions returns an error
\* payload, or the risk is assessed
WeatherOutcomes ==
  {Raises, Returns([error |-> "unavailable"])} \cup
  {Returns([risk_level |-> r]) : r \in RiskLevels}

\* Escalate that flips the flag on a moderate risk: a closure check the
\* query asked for is turned off
Escalate_Toggle(risk_level, needs) ==
  IF risk_level = "moderate" THEN ~needs ELSE needs

\* Escalate that never escalates
Escalate_Never(risk_level, needs) == needs

\* a moderate risk turns the closure check on
Escalate(risk_level, needs) ==
  IF risk_level = "moderate" /\ ~needs THEN TRUE ELSE needs

contextual_intelligence_agent ==
  /\ pc = "contextual_intelligence"
  /\ \E outcome \in WeatherOutcomes :
       IF outcome.raises
       THEN /\ weather_data' = EmptyDict
            /\ error_messages' = AppendError(error_messages, "Weather error: e")
            /\ failures' = 1
            /\ UNCHANGED << needs_closures, weather_too_dangerous >>
       ELSE IF "error" \in DOMAIN outcome.value
       THEN /\ weather_data' = EmptyDict
            /\ error_messages' = AppendError(error_messages, "Weather data unavailable")
            /\ failures' = 1
            /\ UNCHANGED << needs_closures, weather_too_dangerous >>
       ELSE LET weather_risk == outcome.value
            IN  /\ weather_data' =
                     [conditions |-> Conditions, risk_assessment |-> weather_risk]
                /\ error_messages' = error_messages
                /\ failures' = 0
                /\ IF weather_risk.risk_level = "high"
                   THEN /\ weather_too_dangerous' = TRUE
                        /\ needs_closures' = needs_closures
                   ELSE /\ weather_too_dangerous' = weather_too_dangerous
                        /\ needs_closures' =
                             Escalate(weather_risk.risk_level, needs_closures)
  /\ calls' = [calls EXCEPT !.weather = @ + 1]
  /\ Advance("contextual_intelligence")
  /\ UNCHANGED << inputs, utility, needs_safety, needs_weather, routes, safety_analysis,
                  closures_data, recommendation, context, evaluated,
                  closure_queries, decoded >>

(***************************************************************************)
(* utils.sample_route_strategically: which points of a decoded polyline    *)
(* are queried.  A polyline of n points is the list of its point indices   *)
(* 0..n-1.                                                                 *)
(***************************************************************************)
\* num_samples as every caller passes it
NumSamples == 3

\* int(total_points * 0.33) and int(total_points * 0.66)
PercentIndex(total_points, percent) == (total_points * percent) \div 100

\* SampleIndices whose end point is taken at total_points instead of
\* total_points - 1
SampleIndices_PastTheEnd(total_points, num_samples, skip_start) ==
  IF total_points = 0 THEN <<>>
  ELSE IF total_points <= num_samples
    THEN [i \in 1..total_points |-> i - 1]
  ELSE IF skip_start
    THEN << PercentIndex(total_points, 33), PercentIndex(total_points, 66),
            total_points >>
  ELSE << 0, total_points \div 2, total_points >>

\* the route_index of every sample point, in order
SampleIndices(total_points, num_samples, skip_start) ==
  IF total_points = 0 THEN <<>>
  ELSE IF total_points <= num_samples
    THEN [i \in 1..total_points |-> i - 1]
  ELSE IF skip_start
    THEN << PercentIndex(total_points, 33), PercentIndex(total_points, 66),
            total_points - 1 >>
  ELSE << 0, total_points \div 2, total_points - 1 >>

\* round(num / den, 0) as Python rounds: to the nearest integer, a tie to
\* the even one
RoundHalfEven(num, den) ==
  LET q == num \div den
      r == num % den
  IN  IF 2 * r > den \/ (2 * r = den /\ q % 2 = 1) THEN q + 1 ELSE q

\* round((i / max(total_points - 1, 1)) * 100, 1) of the short-route branch,
\* in tenths of a percent: 333 stands for 33.3
ShortRouteProgress(i, total_points) ==
  RoundHalfEven(1000 * i, IF total_points - 1 > 1 THEN total_points - 1 ELSE 1)

\* RouteProgress that divides by the number of points instead of the number
\* of steps between them
RouteProgress_OverCount(idx, total_points) == RoundHalfEven(1000 * idx, total_points)

\* round((idx / (total_points - 1)) * 100, 1), in tenths of a percent
RouteProgress(idx, total_points) == RoundHalfEven(1000 * idx, total_points - 1)

\* route_points[i] of the polyline sampled: every point has coordinates of
\* its own, in thousandths of a degree
PolylinePoint(i) == [lat |-> 40000 + i, lng |-> 0 - 74000 - i]

\* the sample points returned: the coordinates of the point at route_index,
\* route_index and route_progress
SamplePoints(total_points, num_samples, skip_start) ==
  LET indices == SampleIndices(total_points, num_samples, skip_start)
  IN  [i \in 1..Len(indices) |->
         [lat |-> PolylinePoint(indices[i]).lat,
          lng |-> PolylinePoint(indices[i]).lng,
          route_index |-> indices[i],
          route_progress |->
            IF total_points <= num_samples
            THEN ShortRouteProgress(indices[i], total_points)
            ELSE RouteProgress(indices[i], total_points)]]

(***************************************************************************)
(* street_closure_agent (CheckClosures)                                    *)
(***************************************************************************)
Closure(street, date) == [street_name |-> street, work_start_date |-> date]

\* the closure lists get_street_closures may return for one point
ClosureLists ==
  { <<>>,
    << Closure("Main St", "2024-05-01"), Closure("Main St", "2024-06-01") >> }

\* polyline.decode(top_route["polyline"]): raises, or the number of points
DecodeOutcomes == {Raises} \cup {Returns(n) : n \in 0..MaxPolylinePoints}

\* get_closures.get_street_closures at one point: raises, an error payload,
\* or a payload with a list of closures
ClosureOutcomes ==
  {Raises, Returns([error |-> "unavailable"])} \cup
  {Returns([closures |-> cs]) : cs \in ClosureLists}

\* get_closures.assess_closure_impact
ImpactOutcomes == {Raises, Returns([impact |-> "low"])}

\* the closures the loop over the sample points collects in all_closures
RECURSIVE AllClosures(_)
AllClosures(responses) ==
  IF responses = <<>> THEN <<>>
  ELSE LET n == Len(responses)
           rest == AllClosures(SubSeq(responses, 1, n - 1))
           r == responses[n]
       IN  IF r.raises \/ "error" \in DOMAIN r.value THEN rest
           ELSE rest \o r.value.closures

\* how many of the lookups raised or returned an error payload
FailedLookups(responses) ==
  Cardinality({i \in 1..Len(responses) :
                 responses[i].raises \/ "error" \in DOMAIN responses[i].value})

\* f"{street_name}_{work_start_date}"
ClosureKey(closure) == closure.street_name \o "_" \o closure.work_start_date

\* list(unique_closures.values()): the first closure of every key, in the
\* order the keys were first seen
Deduplicate(all_closures) ==
  LET first == SelectSeq(Positions(Len(all_closures)),
                         LAMBDA i : \A j \in 1..(i - 1) :
                                      ClosureKey(all_closures[j]) # ClosureKey(all_closures[i]))
  IN  [k \in 1..Len(first) |-> all_closures[first[k]]]

\* ClosuresSkipped without the needs_closures guard: only an empty route
\* list skips the check
ClosuresSkipped_OnlyWithoutRoutes(needs, rs) == rs = <<>>

\* the two early returns: needs_closures is false, or there are no routes
ClosuresSkipped(needs, rs) == ~needs \/ rs = <<>>

street_closure_agent ==
  /\ pc = "street_closures"
  /\ IF ClosuresSkipped(needs_closures, routes)
     THEN /\ closures_data' = EmptyDict
          /\ failures' = 0
          /\ UNCHANGED << error_messages, closure_queries, decoded, calls >>
     ELSE LET top_route == routes[1]
          IN  \E route_points \in DecodeOutcomes :
                /\ calls' = [calls EXCEPT !.polyline_decode = @ + 1]
                /\ decoded' = Append(decoded, route_points)
                /\ IF route_points.raises
                   THEN /\ closures_data' = EmptyDict
                        /\ error_messages' =
                             AppendError(error_messages, "Closure detection error: e")
                        /\ failures' = 1
                        /\ UNCHANGED closure_queries
                   ELSE LET sample_points ==
                              SampleIndices(route_points.value, NumSamples, TRUE)
                        IN  \E responses \in [1..Len(sample_points) -> ClosureOutcomes],
                               impact \in ImpactOutcomes :
                              LET closure_list == Deduplicate(AllClosures(responses))
                              IN  /\ failures' = FailedLookups(responses)
                                                   + (IF impact.raises THEN 1 ELSE 0)
                                  /\ closure_queries' = closure_queries \o
                                       [i \in 1..Len(sample_points) |->
                                          [direction |-> top_route.direction,
                                           route_index |-> sample_points[i]]]
                                  /\ IF impact.raises
                                     THEN /\ closures_data' = EmptyDict
                                          /\ error_messages' =
                                               AppendError(error_messages,
                                                           "Closure detection error: e")
                                     ELSE /\ closures_data' =
                                               [closures |->
                                                  [total_closures |-> Len(closure_list),
                                                   closures |-> closure_list],
                                                impact_assessment |-> impact.value]
                                          /\ error_messages' = error_messages
  \* the graph built by StateGraph(RunnerVisionState) hands a node the keys
  \* of RunnerVisionState only: the dict this node works on and returns has
  \* no "weather_too_dangerous"
  /\ weather_too_dangerous' = FALSE
  /\ Advance("street_closures")
  /\ UNCHANGED << inputs, utility, flags, routes, safety_analysis, weather_data,
                  recommendation, context, evaluated >>

(***************************************************************************)
(* synthesis_agent (Synthesize)                                            *)
(***************************************************************************)
NoRoutesRecommendation ==
  "unable to generate routes. Please try a different location or distance."

\* f"unable to generate recommendation: {str(e)}\n\nPlease try again ..."
FallbackRecommendation ==
  "unable to generate recommendation: e\n\nPlease try again or adjust your query."

\* llm.invoke(messages): raises, or a response whose content may be empty
LLMOutcomes == {Raises, Returns("Run the north loop."), Returns("")}

\* BuildContext that adds the warnings whether or not there are any
BuildContext_AlwaysWarnings ==
  [ user_query |-> query,
    location |-> [lat |-> start_lat, lng |-> start_lng],
    target_distance_km |-> target_distance_km,
    routes_generated |-> Len(routes),
    route_details |->
      [i \in 1..Len(routes) |->
         [direction |-> routes[i].direction, accuracy |-> routes[i].accuracy]],
    warnings |-> error_messages ]
  @@ (IF safety_analysis # <<>>
      THEN [safety_data |->
              [i \in 1..Len(safety_analysis) |->
                 [direction |-> safety_analysis[i].direction,
                  overall_safety_score |->
                    safety_analysis[i].safety_analysis.overall_safety_score,
                  dangerous_segments |->
                    safety_analysis[i].safety_analysis.dangerous_segments]]]
      ELSE EmptyDict)
  @@ (IF Truthy(weather_data) THEN [weather |-> weather_data] ELSE EmptyDict)
  @@ (IF Truthy(closures_data)
      THEN [closures |->
              [total_closures |-> closures_data.closures.total_closures,
               impact |-> closures_data.impact_assessment.impact]]
      ELSE EmptyDict)

\* the context dict of synthesis_agent; the accuracy of a route is passed
\* as text and its distance is carried along unchanged, both left out here
BuildContext ==
  [ user_query |-> query,
    location |-> [lat |-> start_lat, lng |-> start_lng],
    target_distance_km |-> target_distance_km,
    routes_generated |-> Len(routes),
    route_details |->
      [i \in 1..Len(routes) |->
         [direction |-> routes[i].direction, accuracy |-> routes[i].accuracy]] ]
  @@ (IF safety_analysis # <<>>
      THEN [safety_data |->
              [i \in 1..Len(safety_analysis) |->
                 [direction |-> safety_analysis[i].direction,
                  overall_safety_score |->
                    safety_analysis[i].safety_analysis.overall_safety_score,
                  dangerous_segments |->
                    safety_analysis[i].safety_analysis.dangerous_segments]]]
      ELSE EmptyDict)
  @@ (IF Truthy(weather_data) THEN [weather |-> weather_data] ELSE EmptyDict)
  @@ (IF Truthy(closures_data)
      THEN [closures |->
              [total_closures |-> closures_data.closures.total_closures,
               impact |-> closures_data.impact_assessment.impact]]
      ELSE EmptyDict)
  @@ (IF error_messages # <<>> THEN [warnings |-> error_messages] ELSE EmptyDict)

\* SynthesisShortCircuits that never short-circuits
SynthesisShortCircuits_Never(rs) == FALSE

\* without routes there is nothing to recommend
SynthesisShortCircuits(rs) == rs = <<>>

synthesis_agent ==
  /\ pc = "synthesis"
  /\ IF SynthesisShortCircuits(routes)
     THEN /\ recommendation' = NoRoutesRecommendation
          /\ failures' = 0
          /\ UNCHANGED << context, calls >>
     ELSE /\ context' = BuildContext
          /\ calls' = [calls EXCEPT !.llm = @ + 1]
          /\ \E outcome \in LLMOutcomes :
               /\ recommendation' =
                    IF outcome.raises THEN FallbackRecommendation ELSE outcome.value
               /\ failures' = IF outcome.raises THEN 1 ELSE 0
  /\ Advance("synthesis")
  /\ UNCHANGED << inputs, utility, flags, routes, safety_analysis, weather_data,
                  closures_data, error_messages, weather_too_dangerous,
                  evaluated, closure_queries, decoded >>

(***************************************************************************)
(* The workflow.                                                           *)
(***************************************************************************)
Next ==
  \/ run_runner_vision
  \/ router_agent
  \/ route_generation_agent
  \/ safety_analysis_agent
  \/ contextual_intelligence_agent
  \/ street_closure_agent
  \/ synthesis_agent

Spec == Init /\ [][Next]_vars

(***************************************************************************)
(* Properties.                                                             *)
(***************************************************************************)
StageOrder ==
  << "router", "route_generation", "safety_analysis", "contextual_intelligence",
     "street_closures", "synthesis" >>

Stages == {StageOrder[i] : i \in 1..Len(StageOrder)}

\* the stage with this name has run
HasRun(stage) == \E i \in 1..Len(executed) : executed[i] = stage

\* the request meets the three conditions of the entry point
RequestAcceptable ==
  /\ Len(Strip(query)) >= 3
  /\ start_lat >= -90 /\ start_lat <= 90
  /\ start_lng >= -180 /\ start_lng <= 180
  /\ target_distance_km > 0 /\ target_distance_km <= 50

NoCollaboratorInvoked ==
  /\ calls = NoCalls
  /\ evaluated = <<>>
  /\ closure_queries = <<>>

\* C1: validation is fatal and comes before every stage.  The call rejects
\* a request that violates a condition and hands a request that meets all
\* conditions to the first stage; a rejected request has an error result, no
\* stage has run, no collaborator has been invoked, and nothing more
\* happens; a request is in the pipeline only after the call accepted it.
C1_ValidationIsFatal ==
  /\ [][ pc = "call" =>
           IF RequestAcceptable
           THEN pc' = StageOrder[1] /\ executed' = <<>>
           ELSE pc' = "rejected" ]_vars
  /\ [](pc = "rejected" =>
          /\ DOMAIN Result = {"error"}
          /\ Result.error # ""
          /\ executed = <<>>
          /\ NoCollaboratorInvoked
          /\ ~ENABLED Next)
  /\ [](pc \in {"call", "rejected"} \cup Stages \cup {"END"})
  /\ [](pc \in {"call", "rejected"} => executed = <<>>)

\* C1 witness: a request for 0 km, in range otherwise, has been rejected
C1_Witness ==
  /\ pc = "rejected"
  /\ target_distance_km = 0
  /\ Len(Strip(query)) >= 3
  /\ start_lat = 90

\* the weather stage recorded a moderate risk
ModerateRisk ==
  /\ Truthy(weather_data)
  /\ weather_data.risk_assessment.risk_level = "moderate"

\* the closure stage went past its guards and decoded the top route
ClosureAnalysisPerformed == calls.polyline_decode = 1

\* C2: weather escalation.  Once CheckWeather has finished with a moderate
\* risk, needs_closures is true (whatever Classify decided), this holds when
\* the CheckClosures guard is evaluated, and with a non-empty route list
\* CheckClosures has performed the closure analysis once it has run.
C2_WeatherEscalation ==
  /\ HasRun("street_closures") => HasRun("contextual_intelligence")
  /\ ModerateRisk =>
       /\ HasRun("contextual_intelligence")
       /\ needs_closures
       /\ HasRun("street_closures") /\ routes # <<>> => ClosureAnalysisPerformed

\* C2 witness: Classify left needs_closures false, the risk was moderate and
\* the closure collaborator has been queried
C2_Witness ==
  /\ query = QueryPlain
  /\ ModerateRisk
  /\ HasRun("street_closures")
  /\ closure_queries # <<>>

\* C3: the stages run exactly once each in the fixed order, whatever the
\* collaborators do: the stages run so far are an initial part of the order,
\* the request stands at the next one, a request that has not reached END can
\* always take its next step, and at END all six have run.
C3_FixedStageOrder ==
  pc \notin {"call", "rejected"} =>
    /\ Len(executed) <= Len(StageOrder)
    /\ executed = SubSeq(StageOrder, 1, Len(executed))
    /\ pc = (IF Len(executed) = Len(StageOrder) THEN "END"
             ELSE StageOrder[Len(executed) + 1])
    /\ pc # "END" => ENABLED Next

\* C3 witness: END reached although three collaborators failed
C3_Witness ==
  /\ pc = "END"
  /\ Len(error_messages) >= 3

\* word is the piece of text that starts at some position
OccursIn(word, text) ==
  \E i \in 1..Len(text) :
     /\ i + Len(word) - 1 <= Len(text)
     /\ SubSeq(text, i, i + Len(word) - 1) = word

MentionsAny(text, lexicon) ==
  \E w \in 1..Len(lexicon) : OccursIn(lexicon[w], text)

\* C4: Classify.  The Classify step sets needs_safety to true exactly when
\* the lower-cased query contains a word of the safety lexicon, needs_weather
\* to true, and needs_closures to true exactly when the query contains a word
\* of the closures lexicon; the two queries of the spec get (true, true,
\* true) and (false, false, true).  No other step changes needs_safety or
\* needs_weather, and only CheckWeather may change needs_closures afterwards.
C4_Classification ==
  /\ [][ pc = "router" =>
           /\ needs_safety' <=> MentionsAny(Lower(query), SafetyLexicon)
           /\ needs_weather'
           /\ needs_closures' <=> MentionsAny(Lower(query), ClosuresLexicon)
           /\ query = QuerySafeConstruction => needs_safety' /\ needs_closures'
           /\ query = QueryPlain => ~needs_safety' /\ ~needs_closures'
           /\ query = QueryUpperRisk => needs_safety' /\ ~needs_closures'
           /\ query = QueryRoadwork => ~needs_safety' /\ needs_closures' ]_vars
  /\ [][ pc # "router" =>
           /\ UNCHANGED << query, needs_safety, needs_weather >>
           /\ pc # "contextual_intelligence" => UNCHANGED needs_closures ]_vars

\* C4 witness: the upper-case query has been classified as a safety query
C4_Witness ==
  /\ query = QueryUpperRisk
  /\ pc = "route_generation"
  /\ needs_safety

IsPrefix(a, b) == Len(a) <= Len(b) /\ SubSeq(b, 1, Len(a)) = a

\* C5: error messages accumulate.  The list is empty when the request is
\* made, and every step leaves the list it found as a prefix of the list it
\* leaves: no message is removed, replaced or reordered.
C5_ErrorsAccumulate ==
  [][ /\ pc = "call" => error_messages = <<>>
      /\ IsPrefix(error_messages, error_messages') ]_vars

\* C5 witness: three stages have each recorded a failure
C5_Witness ==
  /\ Len(error_messages) = 3
  /\ error_messages[1] = "Safety analysis failed"
  /\ error_messages[3] = "Closure detection error: e"

RouteErrors == {"Route generation failed", "Route generation error: e"}

WeatherErrors == {"Weather data unavailable", "Weather error: e"}

\* C6: no routes.  After a GenerateRoutes that left routes empty exactly one
\* message, its own, has been recorded; AnalyzeSafety and CheckClosures find
\* nothing to analyze, whatever the flags: they leave safety_analysis = [] and
\* closures_data = {}, query no collaborator and add no message (only
\* CheckWeather may add one); and the request can always go on to END.
C6_NoRoutesDegradesGracefully ==
  HasRun("route_generation") /\ routes = <<>> =>
    /\ calls.route_provider = 1
    /\ Len(error_messages) \in {1, 2}
    /\ error_messages[1] \in RouteErrors
    /\ Len(error_messages) = 2 =>
         HasRun("contextual_intelligence") /\ error_messages[2] \in WeatherErrors
    /\ safety_analysis = <<>>
    /\ evaluated = <<>>
    /\ closures_data = EmptyDict
    /\ closure_queries = <<>>
    /\ calls.polyline_decode = 0
    /\ pc # "END" => ENABLED Next

\* C6 witness: END reached without routes although both analyses were asked for
C6_Witness ==
  /\ pc = "END"
  /\ routes = <<>>
  /\ needs_safety
  /\ needs_closures
  /\ Len(error_messages) = 1

\* C7: Synthesize without routes gives the canned message and never calls the
\* generator; with routes it calls the generator exactly once; no other
\* stage calls it.
C7_SynthesisShortCircuit ==
  /\ ~HasRun("synthesis") => calls.llm = 0
  /\ HasRun("synthesis") /\ routes = <<>> =>
       /\ recommendation = NoRoutesRecommendation
       /\ calls.llm = 0
       /\ context = EmptyDict
  /\ HasRun("synthesis") /\ routes # <<>> => calls.llm = 1

\* C7 witness: synthesis has run without routes
C7_Witness ==
  /\ pc = "END"
  /\ routes = <<>>
  /\ recommendation = NoRoutesRecommendation

Min(a, b) == IF a < b THEN a ELSE b

\* the place in routes of the route with this direction
PositionOf(direction) ==
  CHOOSE i \in 1..Len(routes) : routes[i].direction = direction

\* routes[i] is ranked before routes[j]: higher accuracy, or the same
\* accuracy and earlier in the list
Outranks(i, j) ==
  \/ routes[i].accuracy > routes[j].accuracy
  \/ routes[i].accuracy = routes[j].accuracy /\ i < j

\* the routes handed to the safety analysis, as positions in routes
EvaluatedPositions == [k \in 1..Len(evaluated) |-> PositionOf(evaluated[k].direction)]

\* C8: AnalyzeSafety evaluates exactly the min(3, n) routes of highest
\* accuracy, in descending accuracy with ties in list order: the evaluated
\* routes are that many different routes, each outranks the ones evaluated
\* after it and every route that was not evaluated; when the stage is skipped
\* no route is evaluated.
C8_TopThreeByAccuracy ==
  HasRun("safety_analysis") =>
    IF needs_safety /\ routes # <<>>
    THEN /\ Len(evaluated) = Min(3, Len(routes))
         /\ \A k \in 1..Len(evaluated) :
              \E i \in 1..Len(routes) : routes[i].direction = evaluated[k].direction
         /\ \A k, l \in 1..Len(evaluated) :
              k < l => Outranks(EvaluatedPositions[k], EvaluatedPositions[l])
         /\ \A i \in 1..Len(routes) :
              (\A k \in 1..Len(evaluated) : EvaluatedPositions[k] # i) =>
                \A k \in 1..Len(evaluated) : Outranks(EvaluatedPositions[k], i)
    ELSE evaluated = <<>>

\* C8 witness: of four routes with accuracies 80, 95, 80, 95 the second, the
\* fourth and the first were evaluated, in that order
C8_Witness ==
  /\ Len(routes) = 4
  /\ [i \in 1..4 |-> routes[i].accuracy] = <<80, 95, 80, 95>>
  /\ [k \in 1..Len(evaluated) |-> evaluated[k].direction] = <<2, 4, 1>>

\* the evaluations that did not raise
Survivors == SelectSeq(evaluated, LAMBDA e : ~e.raised)

\* C9: failure isolation.  Whichever evaluations fail, every selected route
\* is evaluated, and safety_analysis is the list of evaluated routes, in the
\* order of evaluation (the accuracy ranking), without the failed ones; each
\* entry carries the data of its own route.
C9_FailureIsolation ==
  HasRun("safety_analysis") =>
    /\ needs_safety /\ routes # <<>> => Len(evaluated) = Min(3, Len(routes))
    /\ Len(safety_analysis) = Len(Survivors)
    /\ \A k \in 1..Len(safety_analysis) :
         /\ safety_analysis[k].direction = Survivors[k].direction
         /\ safety_analysis[k].accuracy =
              routes[PositionOf(Survivors[k].direction)].accuracy

\* C9 witness: the second of three evaluations failed and the first and the
\* third are in safety_analysis
C9_Witness ==
  /\ Len(evaluated) = 3
  /\ [k \in 1..3 |-> evaluated[k].raised] = <<FALSE, TRUE, FALSE>>
  /\ Len(safety_analysis) = 2
  /\ safety_analysis[2].direction = evaluated[3].direction

\* every evaluation of the safety stage raised
AllEvaluationsFailed ==
  /\ evaluated # <<>>
  /\ \A k \in 1..Len(evaluated) : evaluated[k].raised

\* C10: if every selected route fails, AnalyzeSafety has recorded one
\* aggregate error and an empty safety_analysis, and the request goes on: it
\* stands at a later stage or at END and can always take its next step.
C10_AllRoutesFail ==
  AllEvaluationsFailed =>
    /\ safety_analysis = <<>>
    /\ Cardinality({i \in 1..Len(error_messages) :
                      error_messages[i] = "Safety analysis failed"}) = 1
    /\ pc \in {"contextual_intelligence", "street_closures", "synthesis", "END"}
    /\ pc # "END" => ENABLED Next

\* C10 witness: END reached after all three evaluations failed
C10_Witness ==
  /\ pc = "END"
  /\ AllEvaluationsFailed
  /\ Len(evaluated) = 3

\* C11: when needs_safety is false, the AnalyzeSafety step records an empty
\* safety_analysis and nothing else: error_messages, routes and every other
\* field of the state keep their values and no route is handed to the
\* incident analysis.
C11_SafetySkipIsNotAnError ==
  [][ (pc = "safety_analysis" /\ ~needs_safety) =>
        /\ safety_analysis' = <<>>
        /\ UNCHANGED << inputs, flags, routes, weather_data, closures_data,
                        recommendation, error_messages, weather_too_dangerous,
                        context >>
        /\ evaluated' = evaluated
        /\ pc' = "contextual_intelligence" ]_vars

\* C11 witness: the stage has just run with needs_safety false on a list of
\* routes that it left alone
C11_Witness ==
  /\ pc = "contextual_intelligence"
  /\ ~needs_safety
  /\ Len(routes) = MaxRoutes
  /\ safety_analysis = <<>>
  /\ evaluated = <<>>
  /\ error_messages = <<>>

\* the closure lookups a step adds to closure_queries are made along one
\* route: they all carry the direction of the same generated route
AlongOneRoute(queries) ==
  \E r \in 1..Len(routes) :
    \A i \in 1..Len(queries) : queries[i].direction = routes[r].direction

\* the lookups cover a polyline of n points the way the sampler samples it:
\* every point of a polyline of at most three points, else three points in
\* route order that end at the last point
CoversPolyline(queries, n) ==
  /\ Len(queries) = Min(n, NumSamples)
  /\ \A i \in 1..Len(queries) :
       /\ queries[i].route_index \in 0..(n - 1)
       /\ i > 1 => queries[i - 1].route_index < queries[i].route_index
  /\ n > 0 => queries[Len(queries)].route_index = n - 1

\* C12: CheckClosures is guarded by needs_closures as CheckWeather left it.
\* If the flag is false or there is no route, the step records the empty
\* closures_data and looks up no closure (it does not even decode a
\* polyline).  If the flag is true and there are routes, the step decodes
\* one polyline and looks up closures at each of its sample points, all
\* along one route (at none when the polyline cannot be decoded).
C12_ClosuresGuard ==
  [][ pc = "street_closures" =>
        IF ~needs_closures \/ routes = <<>>
        THEN /\ closures_data' = EmptyDict
             /\ closure_queries' = <<>>
             /\ decoded' = <<>>
        ELSE /\ Len(decoded') = 1
             /\ AlongOneRoute(closure_queries')
             /\ IF decoded'[1].raises
                THEN closure_queries' = <<>>
                ELSE CoversPolyline(closure_queries', decoded'[1].value) ]_vars

\* C12 witness: a query that names no closure word, a moderate weather risk,
\* and the closure lookups made at the three sample points of a polyline
C12_Witness ==
  /\ query = QueryPlain
  /\ ModerateRisk
  /\ pc = "synthesis"
  /\ Len(decoded) = 1 /\ ~decoded[1].raises /\ decoded[1].value > NumSamples
  /\ Len(closure_queries) = NumSamples

\* C13: the closure lookups are made along a route of maximal accuracy among
\* the generated routes, in whatever order the provider returned them.
C13_ClosuresAlongTopRoute ==
  \A i \in 1..Len(closure_queries) :
    \A j \in 1..Len(routes) :
      routes[PositionOf(closure_queries[i].direction)].accuracy >= routes[j].accuracy

(***************************************************************************)
(* The deduplication of street_closure_agent on its own: the loop over     *)
(* all_closures applied to every short list of closure records.            *)
(***************************************************************************)
\* the longest list of closures deduplicated
MaxClosures == 3

\* field values of closure records; some carry the "_" the key is joined with
StreetNames == {"Main", "Main_North"}

WorkStartDates == {"2024-05-01", "North_2024-05-01"}

ClosureRecords == {Closure(s, d) : s \in StreetNames, d \in WorkStartDates}

ClosureRecordLists ==
  UNION { [1..n -> ClosureRecords] : n \in 0..MaxClosures }

DedupInit ==
  /\ pc = "deduplicate"
  /\ args \in ClosureRecordLists
  /\ returned = <<>>
  /\ query = <<>> /\ start_lat = 0 /\ start_lng = 0 /\ target_distance_km = 0
  /\ Untouched

\* unique_closures, then closure_list = list(unique_closures.values())
deduplicate ==
  /\ pc = "deduplicate"
  /\ returned' = Deduplicate(args)
  /\ pc' = "deduplicated"
  /\ UNCHANGED << args, inputs, flags, routes, safety_analysis, weather_data,
                  closures_data, recommendation, error_messages,
                  weather_too_dangerous, executed, evaluated, closure_queries,
                  decoded, context, calls, failures >>

DedupNext == deduplicate

DedupSpec == DedupInit /\ [][DedupNext]_vars

\* two closure records agree on street_name and on work_start_date
SameClosure(a, b) ==
  a.street_name = b.street_name /\ a.work_start_date = b.work_start_date

\* C14: deduplication by the composite key (street_name, work_start_date).
\* In the merged list, records collapse to one entry exactly when they agree
\* on both fields: no two entries of the merged list agree on both fields,
\* and every collected record has an entry that agrees with it on both, for
\* all field values.
C14_DedupByCompositeKey ==
  pc = "deduplicated" =>
    /\ \A i, j \in 1..Len(returned) :
         i # j => ~SameClosure(returned[i], returned[j])
    /\ \A i \in 1..Len(args) :
         \E k \in 1..Len(returned) : SameClosure(args[i], returned[k])

\* C15: every stage records its own failures.  A stage step inside which a
\* call of a collaborator failed (the route provider, the incident analysis
\* of one route, the weather provider, the closure lookup at one sample
\* point, the recommendation generator) ends with error_messages strictly
\* longer than it began, and the stage hands over to its successor.
C15_StagesRecordFailures ==
  [][ (pc \in Stages /\ failures' > 0) =>
        /\ Len(error_messages') > Len(error_messages)
        /\ pc' = NextNode(pc) ]_vars

\* the weather stage has assessed the risk as high
HighRisk ==
  /\ Truthy(weather_data)
  /\ weather_data.risk_assessment.risk_level = "high"

\* C16: a high weather risk marks the state as weather-too-dangerous and
\* stops no later stage.  The mark is set when CheckWeather hands over, is
\* still in the state that reaches Synthesize and is in the returned result;
\* CheckClosures and Synthesize have both run when the result is returned,
\* and CheckClosures looked up closures only under its needs_closures guard.
C16_TooDangerousIsKept ==
  HighRisk =>
    /\ pc = "street_closures" => weather_too_dangerous
    /\ pc = "synthesis" => weather_too_dangerous
    /\ pc = "END" =>
         /\ "weather_too_dangerous" \in DOMAIN Result
         /\ HasRun("street_closures") /\ HasRun("synthesis")
    /\ ~needs_closures => decoded = <<>>

\* the sections every context holds
RequiredSections ==
  {"user_query", "location", "target_distance_km", "routes_generated", "route_details"}

\* the sections a context holds only when their analysis produced data
OptionalSections == {"safety_data", "weather", "closures", "warnings"}

\* C17: the context handed to the generator holds the query, the origin, the
\* target distance, the route count and one detail record per route, and
\* holds each optional section exactly when its analysis produced data:
\* safety_data (one record per analysed route) iff safety_analysis is not
\* empty, weather (the payload) iff weather_data is not empty, closures
\* (total_closures and impact) iff closures_data is not empty, warnings (the
\* messages) iff error_messages is not empty.
C17_ContextSections ==
  calls.llm > 0 =>
    /\ RequiredSections \subseteq DOMAIN context
    /\ DOMAIN context \subseteq RequiredSections \cup OptionalSections
    /\ context.user_query = query
    /\ context.location = [lat |-> start_lat, lng |-> start_lng]
    /\ context.target_distance_km = target_distance_km
    /\ context.routes_generated = Len(routes)
    /\ Len(context.route_details) = Len(routes)
    /\ \A i \in 1..Len(routes) :
         context.route_details[i].direction = routes[i].direction
    /\ "safety_data" \in DOMAIN context <=> safety_analysis # <<>>
    /\ "safety_data" \in DOMAIN context =>
         /\ Len(context.safety_data) = Len(safety_analysis)
         /\ \A i \in 1..Len(safety_analysis) :
              context.safety_data[i].direction = safety_analysis[i].direction
    /\ "weather" \in DOMAIN context <=> weather_data # EmptyDict
    /\ "weather" \in DOMAIN context => context.weather = weather_data
    /\ "closures" \in DOMAIN context <=> closures_data # EmptyDict
    /\ "closures" \in DOMAIN context =>
         /\ DOMAIN context.closures = {"total_closures", "impact"}
         /\ context.closures.total_closures = Len(closures_data.closures.closures)
    /\ "warnings" \in DOMAIN context <=> error_messages # <<>>
    /\ "warnings" \in DOMAIN context => context.warnings = error_messages

\* C17 witness: a context with safety data, closures and warnings but no
\* weather section, because the weather provider failed
C17_Witness ==
  /\ calls.llm > 0
  /\ DOMAIN context = RequiredSections \cup {"safety_data", "closures", "warnings"}
  /\ weather_data = EmptyDict

\* C18: for every request that passes validation, the recommendation of the
\* returned result is a non-empty string: the canned fallback, which embeds
\* the error text, when the generator call failed, and otherwise never the
\* empty string, also when the generator produced no output.
C18_RecommendationNonEmpty ==
  pc = "END" =>
    /\ Result.recommendation # ""
    /\ (calls.llm > 0 /\ failures > 0) => Result.recommendation = FallbackRecommendation

(***************************************************************************)
(* utils.sample_route_strategically on its own, called with every polyline *)
(* length, sample count and skip_start.                                    *)
(***************************************************************************)
\* the longest polyline sampled
MaxTotalPoints == 100

\* the largest num_samples asked for
MaxNumSamples == 4

SamplerInit ==
  /\ pc = "sample_route_strategically"
  /\ args \in [total_points : 0..MaxTotalPoints,
               num_samples : 1..MaxNumSamples,
               skip_start : BOOLEAN]
  /\ returned = <<>>
  /\ query = <<>> /\ start_lat = 0 /\ start_lng = 0 /\ target_distance_km = 0
  /\ Untouched

sample_route_strategically ==
  /\ pc = "sample_route_strategically"
  /\ returned' = SamplePoints(args.total_points, args.num_samples, args.skip_start)
  /\ pc' = "sampled"
  /\ UNCHANGED << args, inputs, flags, routes, safety_analysis, weather_data,
                  closures_data, recommendation, error_messages,
                  weather_too_dangerous, executed, evaluated, closure_queries,
                  decoded, context, calls, failures >>

SamplerNext == sample_route_strategically

SamplerSpec == SamplerInit /\ [][SamplerNext]_vars

\* the route_progress values returned, in tenths of a percent
ProgressValues == [i \in 1..Len(returned) |-> returned[i].route_progress]

\* the default call on a polyline of a hundred points
HundredPointCall ==
  /\ args.total_points = 100
  /\ args.num_samples = 3
  /\ args.skip_start

\* C19 as claimed: sample(points, k=3, skip_start=true) on a 100-point route
\* returns three sample points with route_progress 33.0, 66.0 and 100.0, and
\* whenever a route has more than k points the last chosen index is N-1.
C19_HundredPointProgress_Claimed ==
  pc = "sampled" =>
    /\ HundredPointCall => ProgressValues = <<330, 660, 1000>>
    /\ args.total_points > args.num_samples =>
         returned[Len(returned)].route_index = args.total_points - 1

\* C19: sample(points, k=3, skip_start=true) on a 100-point route returns
\* three sample points, at the indices 33, 66 and 99, with route_progress
\* 33.3, 66.7 and 100.0, and whenever a route has more than k points the last
\* chosen index is N-1.
C19_HundredPointProgress ==
  pc = "sampled" =>
    /\ HundredPointCall =>
         /\ ProgressValues = <<333, 667, 1000>>
         /\ [i \in 1..Len(returned) |-> returned[i].route_index] = <<33, 66, 99>>
    /\ args.total_points > args.num_samples =>
         returned[Len(returned)].route_index = args.total_points - 1

\* C19 witness: the default call on a hundred points has returned
C19_Witness ==
  /\ pc = "sampled"
  /\ HundredPointCall
  /\ Len(returned) = 3

\* C20: for every non-empty point sequence, every k >= 1 and both values of
\* skip_start, every returned sample has route_progress within [0, 100] and
\* the last returned sample has route_progress 100.
C20_ProgressRange ==
  (pc = "sampled" /\ args.total_points >= 1) =>
    /\ returned # <<>>
    /\ \A i \in 1..Len(returned) :
         returned[i].route_progress >= 0 /\ returned[i].route_progress <= 1000
    /\ returned[Len(returned)].route_progress = 1000

\* the route_index values returned
IndexValues == [i \in 1..Len(returned) |-> returned[i].route_index]

MaxCount == 8

ObservedCounts == {0, 1, 3, MaxCount}

\* what get_area_crash_percentiles returns: the median count, or the error
\* dict of its except branch
Percentile(n) == [error |-> FALSE, count |-> n]

PercentileError == [error |-> TRUE, count |-> 0]

PercentileOutcomes == {PercentileError} \cup {Percentile(n) : n \in {0, 1, 2}}

\* 1000 * math.log(n), rounded, for the integers 1..12
LogThousandths ==
  << 0, 693, 1099, 1386, 1609, 1792, 1946, 2079, 2197, 2303, 2398, 2485 >>

\* a quotient of two counts, kept as the pair it was divided from
Ratio(num, den) == [num |-> num, den |-> den]

\* 1000 * math.log(max(ratio, 0.1))
LogFloored(ratio) ==
  IF 10 * ratio.num < ratio.den THEN 0 - LogThousandths[10]
  ELSE LogThousandths[ratio.num] - LogThousandths[ratio.den]

\* min(hi, max(lo, x))
Clamp(x, lo, hi) == IF x < lo THEN lo ELSE IF x > hi THEN hi ELSE x

CrashPenalty(crash_ratio) == Clamp(15 * LogFloored(crash_ratio), 0, 30000)

InjuryPenalty(injury_ratio) == Clamp(20 * LogFloored(injury_ratio), 0, 35000)

FatalityPenalty(fatality_ratio) ==
  IF fatality_ratio.num = 0 THEN 0
  ELSE Clamp(25 * LogFloored(fatality_ratio), 0, 50000)

calculate_safety_score_logarithmic(crash_ratio, injury_ratio, fatality_ratio) ==
  Clamp(100000 - CrashPenalty(crash_ratio) - InjuryPenalty(injury_ratio)
               - FatalityPenalty(fatality_ratio), 0, 100000)

\* FatalityRatio whose except branch takes a zero baseline as the highest
\* ratio, whatever was observed
FatalityRatio_ZeroBaselineIsHigh(total_fatalities, percentile50_fatalities) ==
  IF percentile50_fatalities = 0 THEN Ratio(10, 1)
  ELSE Ratio(total_fatalities, percentile50_fatalities)

\* try: total_fatalities / percentile50_fatalities
\* except ZeroDivisionError: total_fatalities
FatalityRatio(total_fatalities, percentile50_fatalities) ==
  IF percentile50_fatalities = 0 THEN Ratio(total_fatalities, 1)
  ELSE Ratio(total_fatalities, percentile50_fatalities)

\* safety_wrapper from the totals on: dividing by an error dict raises
\* TypeError, dividing crashes or injuries by 0 raises ZeroDivisionError;
\* the fatality penalty, a local of the score calculation, is returned too
SafetyWrapper(total_crashes, total_injuries, total_fatalities, percentile50_crashes, percentile50_injuries, percentile50_fatalities) ==
  IF percentile50_fatalities.error THEN Raises
  ELSE IF percentile50_crashes.error \/ percentile50_crashes.count = 0 THEN Raises
  ELSE IF percentile50_injuries.error \/ percentile50_injuries.count = 0 THEN Raises
  ELSE LET fatality_r == FatalityRatio(total_fatalities, percentile50_fatalities.count)
           crash_r == Ratio(total_crashes, percentile50_crashes.count)
           injury_r == Ratio(total_injuries, percentile50_injuries.count)
       IN  Returns([safety_score |->
                      calculate_safety_score_logarithmic(crash_r, injury_r, fatality_r),
                    fatality_penalty |-> FatalityPenalty(fatality_r),
                    total_crashes |-> total_crashes,
                    total_injuries |-> total_injuries,
                    total_fatalities |-> total_fatalities])

ScoreInit ==
  /\ pc = "safety_wrapper"
  /\ args \in [total_crashes : ObservedCounts,
               total_injuries : ObservedCounts,
               total_fatalities : ObservedCounts,
               percentile50_crashes : PercentileOutcomes,
               percentile50_injuries : PercentileOutcomes,
               percentile50_fatalities : PercentileOutcomes]
  /\ returned = <<>>
  /\ query = <<>> /\ start_lat = 0 /\ start_lng = 0 /\ target_distance_km = 0
  /\ Untouched

safety_wrapper ==
  /\ pc = "safety_wrapper"
  /\ returned' = SafetyWrapper(args.total_crashes, args.total_injuries,
                               args.total_fatalities, args.percentile50_crashes,
                               args.percentile50_injuries, args.percentile50_fatalities)
  /\ pc' = "scored"
  /\ UNCHANGED << args, inputs, flags, routes, safety_analysis, weather_data,
                  closures_data, recommendation, error_messages,
                  weather_too_dangerous, executed, evaluated, closure_queries,
                  decoded, context, calls, failures >>

ScoreNext == safety_wrapper

ScoreSpec == ScoreInit /\ [][ScoreNext]_vars

\* all three baselines were computed (none is an error dict)
BaselinesComputed ==
  /\ ~args.percentile50_crashes.error
  /\ ~args.percentile50_injuries.error
  /\ ~args.percentile50_fatalities.error

\* C22: the safety score of a point is always defined and within [0, 100],
\* for all non-negative observed counts and all non-negative baseline
\* counts, a baseline of 0 for incidents or for injuries included.
C22_ScoreDefinedInRange ==
  (pc = "scored" /\ BaselinesComputed) =>
    /\ ~returned.raises
    /\ returned.value.safety_score >= 0
    /\ returned.value.safety_score <= 100000

\* C23: if no fatality was observed at a point, the fatality penalty of its
\* score is 0 for every baseline fatality value, baseline 0 included, where
\* the ratio is the observed count itself.
C23_NoFatalityNoPenalty ==
  (pc = "scored" /\ ~returned.raises /\ args.total_fatalities = 0) =>
    returned.value.fatality_penalty = 0

\* C23 witness: a score computed from no observed fatality over a fatality
\* baseline of 0, with penalties for crashes and injuries
C23_Witness ==
  /\ pc = "scored"
  /\ ~returned.raises
  /\ args.total_fatalities = 0
  /\ args.percentile50_fatalities = Percentile(0)
  /\ returned.value.safety_score < 100000

(***************************************************************************)
(* get_crashes_near_me on its own, up to the summary it hands to           *)
(* safety_wrapper: the rows of the bounding-box query, the exact distance  *)
(* filter and the totals.  A row carries the distance utils.euc_distance   *)
(* finds for it, in metres, and the age of its crash_date, in days.        *)
(***************************************************************************)
\* the most rows the bounding-box query returns
MaxCrashRows == 2

\* radius_km=0.75 and days_back=60, as analyze_route_safety_detailed passes them
RadiusMeters == 750

DaysBack == 60

\* rows inside the radius, on it, and in the corner of the box beyond it;
\* recent and older than the lookback window
CrashRows ==
  [distance_m : {500, RadiusMeters, 900}, age_days : {10, 90},
   injuries : {0, 1}, fatalities : {0, 1}]

RoughCrashes == UNION { [1..n -> CrashRows] : n \in 0..MaxCrashRows }

\* the loop over rough_crashes: a row is kept if distance <= radius_km
NearbyCrashes(rough_crashes, radius_m, days_back) ==
  SelectSeq(rough_crashes, LAMBDA crash : crash.distance_m <= radius_m)

\* sum(crash["injuries"] for crash in nearby_crashes), and the like
RECURSIVE SumInjuries(_)
SumInjuries(crashes) ==
  IF crashes = <<>> THEN 0 ELSE Head(crashes).injuries + SumInjuries(Tail(crashes))

RECURSIVE SumFatalities(_)
SumFatalities(crashes) ==
  IF crashes = <<>> THEN 0 ELSE Head(crashes).fatalities + SumFatalities(Tail(crashes))

\* the "summary" of the response
CrashSummary(nearby_crashes) ==
  [total_crashes |-> Len(nearby_crashes),
   total_injuries |-> SumInjuries(nearby_crashes),
   total_fatalities |-> SumFatalities(nearby_crashes)]

CrashInit ==
  /\ pc = "get_crashes_near_me"
  /\ \E rows \in RoughCrashes :
       args = [rough_crashes |-> rows, radius_m |-> RadiusMeters, days_back |-> DaysBack]
  /\ returned = <<>>
  /\ query = <<>> /\ start_lat = 0 /\ start_lng = 0 /\ target_distance_km = 0
  /\ Untouched

get_crashes_near_me ==
  /\ pc = "get_crashes_near_me"
  /\ returned' = CrashSummary(NearbyCrashes(args.rough_crashes, args.radius_m,
                                            args.days_back))
  /\ pc' = "aggregated"
  /\ UNCHANGED << args, inputs, flags, routes, safety_analysis, weather_data,
                  closures_data, recommendation, error_messages,
                  weather_too_dangerous, executed, evaluated, closure_queries,
                  decoded, context, calls, failures >>

CrashNext == get_crashes_near_me

CrashSpec == CrashInit /\ [][CrashNext]_vars

\* the rows that lie within the radius and inside the lookback window
CountedRows ==
  SelectSeq(args.rough_crashes,
            LAMBDA crash : /\ crash.distance_m <= args.radius_m
                           /\ crash.age_days <= args.days_back)

\* C24: the incident aggregate of a point sums exactly the incidents within
\* radius_km of the point whose date lies inside the lookback window of
\* days_back days: an older incident is never counted, nor is an incident
\* of the bounding box that is farther away than radius_km.
C24_AggregateWithinRadiusAndWindow ==
  pc = "aggregated" =>
    /\ returned.total_crashes = Len(CountedRows)
    /\ returned.total_injuries = SumInjuries(CountedRows)
    /\ returned.total_fatalities = SumFatalities(CountedRows)

\* C25: single-writer discipline.  In every step, needs_safety and
\* needs_weather change only if the step is Classify, routes only if it is
\* GenerateRoutes, safety_analysis only if it is AnalyzeSafety, weather_data
\* only if it is CheckWeather, closures_data only if it is CheckClosures and
\* recommendation only if it is Synthesize; needs_closures changes only in
\* Classify or, from false to true, in CheckWeather; the query, the origin
\* and the target distance never change.
C25_SingleWriter ==
  [][ /\ pc # "router" => UNCHANGED << needs_safety, needs_weather >>
      /\ pc # "route_generation" => UNCHANGED routes
      /\ pc # "safety_analysis" => UNCHANGED safety_analysis
      /\ pc # "contextual_intelligence" => UNCHANGED weather_data
      /\ pc # "street_closures" => UNCHANGED closures_data
      /\ pc # "synthesis" => UNCHANGED recommendation
      /\ needs_closures' # needs_closures =>
           \/ pc = "router"
           \/ pc = "contextual_intelligence" /\ ~needs_closures /\ needs_closures'
      /\ UNCHANGED << query, start_lat, start_lng, target_distance_km >> ]_vars

\* C25 witness: a finished request in which every stage wrote its field and
\* CheckWeather turned on the closure check the query had not asked for
C25_Witness ==
  /\ pc = "END"
  /\ query = QueryUpperRisk
  /\ needs_safety /\ needs_weather /\ needs_closures
  /\ routes # <<>>
  /\ safety_analysis # <<>>
  /\ weather_data # EmptyDict
  /\ closures_data # EmptyDict
  /\ recommendation # ""

(***************************************************************************)
(* psa.analyze_route_safety_detailed on its own: the polyline of a route   *)
(* decodes to total_points points, the sample points are taken from it,    *)
(* get_crashes_near_me answers for each of them, and the segment scores    *)
(* are rolled up.  Scores are in thousandths, the rollup's mean in tenths. *)
(***************************************************************************)
\* seg["safety_score"] < 80
DangerousBelow == 80000

\* the try/except of get_crashes_near_me around the query and
\* safety_wrapper: the response with its "safety", or the error dict
CrashesResponse(query_raises, scored) ==
  IF query_raises \/ scored.raises THEN [error |-> TRUE, safety |-> 0]
  ELSE [error |-> FALSE, safety |-> scored.value.safety_score]

\* the response at a point whose crash baseline is 0
ZeroBaselineResponse ==
  CrashesResponse(FALSE, SafetyWrapper(1, 1, 0, Percentile(0), Percentile(1),
                                       Percentile(1)))

\* the responses get_crashes_near_me gives for one sample point: a failed
\* query, what safety_wrapper makes of a quiet and of a busy point under
\* every crash baseline, and two scores at the threshold; no mean of up to
\* three of these scores lies halfway between two tenths
Responses ==
  {CrashesResponse(TRUE, Raises)}
  \cup {CrashesResponse(FALSE, SafetyWrapper(n, n, 0, p, Percentile(1), Percentile(1))) :
          n \in {1, MaxCount}, p \in PercentileOutcomes}
  \cup {[error |-> FALSE, safety |-> s] : s \in {DangerousBelow - 10, DangerousBelow}}

\* IsDangerous that takes the threshold itself as dangerous
IsDangerous_Inclusive(safety_score) == safety_score <= DangerousBelow

\* if seg["safety_score"] < 80
IsDangerous(safety_score) == safety_score < DangerousBelow

\* segment_analyses, when every response has its "summary" and "safety"
SegmentAnalyses(sample_points, responses) ==
  [i \in 1..Len(sample_points) |->
     [point_index |-> i - 1,
      route_progress |-> sample_points[i].route_progress,
      safety_score |-> responses[i].safety]]

\* sum(safety_scores)
RECURSIVE SumScores(_)
SumScores(segs) ==
  IF segs = <<>> THEN 0 ELSE Head(segs).safety_score + SumScores(Tail(segs))

\* the "safety_analysis" entry of the returned route
SafetyRollup(segment_analyses, sample_points) ==
  [overall_safety_score |->
     RoundHalfEven(SumScores(segment_analyses), 100 * Len(segment_analyses)),
   dangerous_segments |->
     SelectSeq(segment_analyses, LAMBDA seg : IsDangerous(seg.safety_score)),
   sample_points |-> Len(sample_points)]

\* AnalyzeRouteSafetyDetailed that leaves out the sample points whose
\* response is an error dict
AnalyzeRouteSafetyDetailed_SkipsFailedPoints(total_points, responses) ==
  LET sample_points == SamplePoints(total_points, NumSamples, TRUE)
      answered == SelectSeq(SegmentAnalyses(sample_points, responses),
                            LAMBDA seg : ~responses[seg.point_index + 1].error)
  IN  IF answered = <<>> THEN Raises
      ELSE Returns(SafetyRollup(answered, sample_points))

\* the function from the decoded polyline on: reading "summary" of an error
\* dict raises KeyError, the mean of no scores raises ZeroDivisionError
AnalyzeRouteSafetyDetailed(total_points, responses) ==
  LET sample_points == SamplePoints(total_points, NumSamples, TRUE)
  IN  IF \E i \in 1..Len(sample_points) : responses[i].error THEN Raises
      ELSE IF sample_points = <<>> THEN Raises
      ELSE Returns(SafetyRollup(SegmentAnalyses(sample_points, responses),
                                sample_points))

RouteSafetyInit ==
  /\ pc = "analyze_route_safety_detailed"
  /\ \E n \in 0..MaxPolylinePoints :
       \E rs \in [1..Len(SamplePoints(n, NumSamples, TRUE)) -> Responses] :
         args = [total_points |-> n, responses |-> rs]
  /\ returned = <<>>
  /\ query = <<>> /\ start_lat = 0 /\ start_lng = 0 /\ target_distance_km = 0
  /\ Untouched

analyze_route_safety_detailed ==
  /\ pc = "analyze_route_safety_detailed"
  /\ returned' = AnalyzeRouteSafetyDetailed(args.total_points, args.responses)
  /\ pc' = "analysed"
  /\ UNCHANGED << args, inputs, flags, routes, safety_analysis, weather_data,
                  closures_data, recommendation, error_messages,
                  weather_too_dangerous, executed, evaluated, closure_queries,
                  decoded, context, calls, failures >>

RouteSafetyNext == analyze_route_safety_detailed

RouteSafetySpec == RouteSafetyInit /\ [][RouteSafetyNext]_vars

\* the scores of the responses given, and their sum
ResponseScores == [i \in 1..Len(args.responses) |-> [safety_score |-> args.responses[i].safety]]

\* C26: the rollup of an analysed route.  overall_safety_score is the mean
\* of the scores of all the route's sample points to one decimal (within
\* half a tenth of the exact mean) and lies in [0,100]; dangerous_segments
\* holds exactly the segments whose score is below 80, a score of exactly 80
\* not being dangerous; and the sample-point count is the number of
\* segments averaged.
C26_RouteRollup ==
  (pc = "analysed" /\ ~returned.raises) =>
    LET rollup == returned.value
        n == Len(args.responses)
        total == SumScores(ResponseScores)
        diff == 100 * n * rollup.overall_safety_score - total
    IN  /\ diff <= 50 * n /\ 0 - diff <= 50 * n
        /\ rollup.overall_safety_score \in 0..1000
        /\ { rollup.dangerous_segments[k].point_index :
               k \in 1..Len(rollup.dangerous_segments) }
             = { i - 1 : i \in { j \in 1..n : args.responses[j].safety < DangerousBelow } }
        /\ \A k \in 1..Len(rollup.dangerous_segments) :
             /\ rollup.dangerous_segments[k].safety_score
                  = args.responses[rollup.dangerous_segments[k].point_index + 1].safety
             /\ \A l \in 1..(k - 1) :
                  rollup.dangerous_segments[l].point_index
                    < rollup.dangerous_segments[k].point_index
        /\ rollup.sample_points = n
        /\ n = Len(SamplePoints(args.total_points, NumSamples, TRUE))

\* a rollup of three segments of which one scores exactly 80 and another
\* just below it
C26_Witness ==
  /\ pc = "analysed" /\ ~returned.raises
  /\ returned.value.sample_points = 3
  /\ \E i \in 1..3 : args.responses[i].safety = DangerousBelow
  /\ Len(returned.value.dangerous_segments) = 1
  /\ returned.value.dangerous_segments[1].safety_score = DangerousBelow - 10

\* the sample points of the route analysed
AnalysedSamplePoints == SamplePoints(args.total_points, NumSamples, TRUE)

\* C28: no analysed route is built from a subset of its sample points.  If
\* the response at any one sample point is a failure (a failed incident
\* query or baseline computation, a crash baseline of 0 among them), or the
\* polyline decodes to no points, the analysis of the route raises, which is
\* what makes safety_analysis_agent drop the route; a rollup that is
\* returned has a score from every sample point of the route.
C28_NoPartialAnalysis ==
  pc = "analysed" =>
    /\ ZeroBaselineResponse.error
    /\ (\/ \E i \in 1..Len(args.responses) : args.responses[i].error
        \/ args.total_points = 0) => returned.raises
    /\ ~returned.raises =>
         /\ AnalysedSamplePoints # <<>>
         /\ returned.value.sample_points = Len(AnalysedSamplePoints)
         /\ \A i \in 1..Len(AnalysedSamplePoints) : ~args.responses[i].error

\* a route of three sample points whose last point alone has a zero
\* baseline, and whose analysis raised
C28_Witness ==
  /\ pc = "analysed" /\ returned.raises
  /\ Len(args.responses) = 3
  /\ ~args.responses[1].error /\ ~args.responses[2].error
  /\ args.responses[3] = ZeroBaselineResponse

\* C27: a failure of the weather collaborator (it raises, or returns an
\* error payload) in the weather stage leaves weather_data empty, appends
\* exactly one message to error_messages, leaves needs_closures as the
\* router set it and sets no mark of dangerous weather; the closure stage
\* and the synthesis stage run after it.
C27_WeatherFailureDegrades ==
  /\ [][ (pc = "contextual_intelligence" /\ failures' > 0) =>
           /\ weather_data' = EmptyDict
           /\ Len(error_messages') = Len(error_messages) + 1
           /\ SubSeq(error_messages', 1, Len(error_messages)) = error_messages
           /\ error_messages'[Len(error_messages')] \in WeatherErrors
           /\ needs_closures' = needs_closures
           /\ ~weather_too_dangerous'
           /\ pc' = "street_closures" ]_vars
  /\ [][ pc = "street_closures" =>
           pc' = "synthesis" /\ executed' = Append(executed, "street_closures") ]_vars
  /\ [][ pc = "synthesis" =>
           pc' = "END" /\ executed' = Append(executed, "synthesis") ]_vars

\* a run that ended after the weather collaborator had failed, the query
\* having asked for no closure check
C27_Witness ==
  /\ pc = "END"
  /\ weather_data = EmptyDict /\ calls.weather = 1
  /\ \E i \in 1..Len(error_messages) : error_messages[i] \in WeatherErrors
  /\ ~needs_closures
  /\ executed = StageOrder
====
